---- MODULE Spec2Model ----
(***************************************************************************)
(* Request tracking and orchestration of pdf2tables-saas (GenOCR):         *)
(* app/state.py (RequestRegistry), app/views.py (upload, process_queue),   *)
(* app/api.py (extract, status, cancel, download) and the working-storage  *)
(* helpers of app/pipeline/utils.py.                                       *)
(*                                                                         *)
(* Scheduling.  Every handler is an `async def` run by one event loop, so  *)
(* a coroutine runs from one `await` to the next without any other         *)
(* coroutine in between.  The model keeps one step per statement that      *)
(* writes the registry or the disk (so that the sequence of writes is      *)
(* visible) and lets another coroutine start or resume only when none is   *)
(* in the middle of such a segment (LoopFree).  The cleanup timer of       *)
(* cleanup_later is a real thread: it may run between any two steps.       *)
(*                                                                         *)
(* Clients.  request_id is uuid4().hex, first disclosed by the redirect    *)
(* that upload returns; client commands address a request only after that  *)
(* (or an id the registry does not hold, answered 404).                    *)
(*                                                                         *)
(* Specifications.  Spec is the application: uploads, orchestration, the   *)
(* cleanup thread and the client commands.  RegistrySpec is                *)
(* RequestRegistry alone, called method by method by an arbitrary caller.  *)
(* FairSpec is Spec with the event loop and the cleanup thread scheduled   *)
(* fairly.  HangSpec is upload and orchestration for two requests that     *)
(* share the worker threads of asyncio.to_thread, scheduled fairly, with   *)
(* pipeline invocations that may never return.                             *)
(* IsolationSpec is the application for two concurrent requests, with     *)
(* cancels and with registry.cleanup called at any moment.                 *)
(***************************************************************************)
EXTENDS Integers, Sequences, FiniteSets, TLC

\* ------------------------------------------------------------------ bounds
MaxFiles    == 2    \* files carried by one upload call
MaxTime     == 1    \* readings of time.time() range over 0..MaxTime
MaxExtract  == 1    \* /api/extract calls in flight at once

\* the request ids uuid4 hands out.  Requests share the event loop, the clock
\* and the registry dict, in which every operation touches one record; the
\* specification below follows one upload request.
ReqIds   == {1}
ExtSlots == 1..MaxExtract

\* client-supplied filenames (UploadFile.filename); "" is a missing filename
FileNames == {"a.pdf", ""}
\* messages of the failures run_pipeline raises ("boom" in the spec's scenario)
PipelineMessages == {"boom"}

\* ------------------------------------------------------- Optional[...] = None
None     == "None"
NoneNum == 0 - 1
NonePath == << >>

\* a reading of time.time() that is stored and never read, rewritten or
\* compared again (created_at, started_at): kept as "set", its value untracked
SomeTime == "time.time()"

\* ------------------------------------------------------------------ helpers
\* views.py:51  original_name = upload_file.filename or "uploaded"
original_name(filename) == IF filename = "" THEN "uploaded" ELSE filename

\* Path(filename).suffix.lower()
suffix(filename) == IF filename = "a.pdf" THEN ".pdf" ELSE ""

\* hashlib.sha256(filename).hexdigest(): one digest per distinct filename
sha256(filename) == "sha256:" \o filename

\* utils.py:26-29
hashed_filename(filename) == sha256(filename) \o suffix(filename)

Keys == { hashed_filename(original_name(n)) : n \in FileNames }

\* utils.py:118-121  int(index * (100 / (len(stages) - 1)))
Stages == << "received", "decide", "ocr", "extract", "render" >>
stage_progress(stage) ==
    IF \E i \in 1..Len(Stages) : Stages[i] = stage
    THEN LET i == CHOOSE j \in 1..Len(Stages) : Stages[j] = stage
         IN  ((i - 1) * 100) \div (Len(Stages) - 1)
    ELSE 0

\* utils.py:94-97  one working directory per request id
temp_request_dir(request_id) == << "pdf2tables", request_id >>

Terminal == {"finished", "error", "cancelled"}

VARIABLES
    records,   \* RequestRegistry._records: request_id -> RequestRecord
    disk,      \* working storage: directory -> file key -> what is at work_dir / key
    timer,     \* cleanup_later threads that are waiting out their delay
    upl,       \* the upload coroutine of each request
    task,      \* the process_queue coroutine of each request
    ext,       \* the /api/extract coroutines
    now,       \* time.time()
    hist,      \* history of each request: the files cancelled while still queued
    call,      \* the last call made on the registry by a direct caller of its API
    pool       \* asyncio.to_thread's executor: the calls given a worker thread

vars == << records, disk, timer, upl, task, ext, now, hist, call, pool >>


\* ------------------------------------------------ app/state.py: the registry
\* state.py:11-21  FileStatus(name=..., display_name=...) with its defaults
FileStatus(name, display_name) ==
    [ name |-> name, display_name |-> display_name, status |-> "pending",
      progress |-> 0, error |-> None, html_path |-> NonePath,
      json_path |-> NonePath, started_at |-> SomeTime, finished_at |-> NoneNum ]

\* state.py:24-29  RequestRecord(request_id=..., directory=...); files is a dict,
\* kept here as the sequence of its values in insertion order (keys = names)
RequestRecord(request_id, directory) ==
    [ request_id |-> request_id, directory |-> directory, created_at |-> SomeTime,
      files |-> << >> ]

\* position of key `name` in the dict `files`, 0 when absent
IndexOf(files, name) ==
    IF \E i \in 1..Len(files) : files[i].name = name
    THEN CHOOSE i \in 1..Len(files) : files[i].name = name
    ELSE 0

HasFile(recs, request_id, file_name) ==
    /\ request_id \in DOMAIN recs
    /\ IndexOf(recs[request_id].files, file_name) # 0

\* record.files.get(name) for a key that is present
FileOf(recs, request_id, file_name) ==
    recs[request_id].files[IndexOf(recs[request_id].files, file_name)]

\* state.py:39-43
create_request(recs, request_id, directory) ==
    (request_id :> RequestRecord(request_id, directory)) @@ recs

\* Optional[RequestRecord] = None
NoneRecord == << >>

\* state.py:45-47  self._records.get(request_id)
get(recs, request_id) ==
    IF request_id \in DOMAIN recs THEN recs[request_id] ELSE NoneRecord

\* add_file putting a new key in front of the others
add_file_front(recs, request_id, status) ==
    LET files == recs[request_id].files
        i     == IndexOf(files, status.name)
    IN  [recs EXCEPT ![request_id].files =
            IF i = 0 THEN << status >> \o files ELSE [files EXCEPT ![i] = status]]

\* state.py:49-52  record.files[status.name] = status: a dict assignment, which
\* replaces the value of an existing key in place and appends a new key
add_file(recs, request_id, status) ==
    LET files == recs[request_id].files
        i     == IndexOf(files, status.name)
    IN  [recs EXCEPT ![request_id].files =
            IF i = 0 THEN Append(files, status) ELSE [files EXCEPT ![i] = status]]

\* state.py:51  self._records[request_id] raises KeyError
add_file_raises(recs, request_id) == request_id \notin DOMAIN recs

\* state.py:54-59
list_files(recs, request_id) ==
    IF request_id \notin DOMAIN recs THEN << >> ELSE recs[request_id].files

\* update taking a missing record or entry in silence, as cancel does
update_raises_never(recs, request_id, file_name) == FALSE

\* state.py:73-74  the two lookups of update raise KeyError
update_raises(recs, request_id, file_name) == ~HasFile(recs, request_id, file_name)

\* state.py:85-86  which statuses make update stamp finished_at
StampingStatuses == {"finished", "error"}

\* update pinning the progress of a terminal status to 100, asked for or not
update_pinning(recs, request_id, file_name, status, progress, error, html_path, json_path, t) ==
    IF ~HasFile(recs, request_id, file_name) THEN recs
    ELSE
    LET i  == IndexOf(recs[request_id].files, file_name)
        e0 == recs[request_id].files[i]
        e1 == [e0 EXCEPT
                 !.status    = IF status # None THEN status ELSE @,
                 !.progress  = IF status \in Terminal THEN 100
                               ELSE IF progress # NoneNum THEN progress ELSE @,
                 !.error     = IF error # None THEN error ELSE @,
                 !.html_path = IF html_path # NonePath THEN html_path ELSE @,
                 !.json_path = IF json_path # NonePath THEN json_path ELSE @]
        e2 == IF status \in StampingStatuses
              THEN [e1 EXCEPT !.finished_at = t] ELSE e1
    IN  [recs EXCEPT ![request_id].files[i] = e2]

\* update writing the entry of that name in every record that holds one, as if
\* the records shared their FileStatus objects
update_shared(recs, request_id, file_name, status, progress, error, html_path, json_path, t) ==
    IF ~HasFile(recs, request_id, file_name) THEN recs
    ELSE
    [ x \in DOMAIN recs |->
        LET i == IndexOf(recs[x].files, file_name)
        IN  IF i = 0 THEN recs[x]
            ELSE [recs[x] EXCEPT !.files[i] =
                    [@ EXCEPT
                       !.status    = IF status # None THEN status ELSE @,
                       !.progress  = IF progress # NoneNum THEN progress ELSE @,
                       !.error     = IF error # None THEN error ELSE @,
                       !.html_path = IF html_path # NonePath THEN html_path ELSE @,
                       !.json_path = IF json_path # NonePath THEN json_path ELSE @,
                       !.finished_at = IF status \in StampingStatuses THEN t ELSE @]] ]

\* state.py:61-86  (an argument left out is None).  The lookups of lines 73-74
\* come before every write: an update that raises leaves the registry as it was
update(recs, request_id, file_name, status, progress, error, html_path, json_path, t) ==
    IF ~HasFile(recs, request_id, file_name) THEN recs
    ELSE
    LET i  == IndexOf(recs[request_id].files, file_name)
        e0 == recs[request_id].files[i]
        e1 == [e0 EXCEPT
                 !.status    = IF status # None THEN status ELSE @,
                 !.progress  = IF progress # NoneNum THEN progress ELSE @,
                 !.error     = IF error # None THEN error ELSE @,
                 !.html_path = IF html_path # NonePath THEN html_path ELSE @,
                 !.json_path = IF json_path # NonePath THEN json_path ELSE @]
        e2 == IF status \in StampingStatuses
              THEN [e1 EXCEPT !.finished_at = t] ELSE e1
    IN  [recs EXCEPT ![request_id].files[i] = e2]

\* mark_error recording the message and leaving the status as it is
mark_error_keeping_status(recs, request_id, file_name, message, t) ==
    update(recs, request_id, file_name, None, 100, message, NonePath, NonePath, t)

\* state.py:88-95
mark_error(recs, request_id, file_name, message, t) ==
    update(recs, request_id, file_name, "error", 100, message, NonePath, NonePath, t)

\* cancel making an entry for a file name the request does not hold
registry_cancel_adding(recs, request_id, file_name, t) ==
    IF request_id \notin DOMAIN recs THEN recs
    ELSE IF ~HasFile(recs, request_id, file_name)
    THEN [recs EXCEPT ![request_id].files =
            Append(@, [FileStatus(file_name, file_name) EXCEPT
                         !.status = "cancelled", !.progress = 100,
                         !.finished_at = t])]
    ELSE LET i == IndexOf(recs[request_id].files, file_name)
         IN  [recs EXCEPT ![request_id].files[i] =
                [@ EXCEPT !.status = "cancelled", !.progress = 100,
                          !.finished_at = t]]

\* state.py:97-105
registry_cancel(recs, request_id, file_name, t) ==
    IF ~HasFile(recs, request_id, file_name) THEN recs
    ELSE LET i == IndexOf(recs[request_id].files, file_name)
         IN  [recs EXCEPT ![request_id].files[i] =
                [@ EXCEPT !.status = "cancelled", !.progress = 100,
                          !.finished_at = t]]

\* cleanup emptying the record's files and keeping the record
cleanup_files_only(recs, request_id) ==
    IF request_id \in DOMAIN recs THEN [recs EXCEPT ![request_id].files = << >>]
    ELSE recs

\* state.py:107-109  self._records.pop(request_id, None)
cleanup(recs, request_id) ==
    [ r \in DOMAIN recs \ {request_id} |-> recs[r] ]


\* ------------------------------------------------------- working storage
Dirs == { temp_request_dir(r) : r \in ReqIds }

\* what is at work_dir / key: nothing, the saved upload (a regular file), or
\* the output directory with the artifacts written into it so far
Absent    == [ kind |-> "none", html |-> FALSE, json |-> FALSE ]
SavedFile == [ kind |-> "file", html |-> FALSE, json |-> FALSE ]
EmptyDir  == [ kind |-> "dir",  html |-> FALSE, json |-> FALSE ]

\* Path.exists()
exists(d, directory, key) == d[directory][key].kind # "none"

\* output_dir.mkdir(parents=True, exist_ok=True) raises FileExistsError when the
\* path exists and is not a directory
mkdir_raises(d, directory, key) == d[directory][key].kind = "file"

mkdir(d, directory, key) ==
    IF d[directory][key].kind = "dir" THEN d
    ELSE [d EXCEPT ![directory][key] = EmptyDir]

\* (output_dir / name).write_text(...) raises FileNotFoundError when the
\* directory is gone, NotADirectoryError when a regular file is in its place
write_raises(d, directory, key) == d[directory][key].kind # "dir"

write_html(d, directory, key) == [d EXCEPT ![directory][key].html = TRUE]

\* the metadata file left unwritten
write_json_skipped(d, directory, key) == d

write_json(d, directory, key) == [d EXCEPT ![directory][key].json = TRUE]

\* cleanup_later building its thread and never starting it
cleanup_later_not_started(threads, request_id) == threads

\* utils.py:105-115  cleanup_later(work_dir): a thread is started that waits out
\* the delay and then removes the directory
cleanup_later(threads, request_id) == [threads EXCEPT ![request_id] = TRUE]

\* utils.py:100-102  shutil.rmtree(path)
cleanup_directory(d, directory) ==
    [d EXCEPT ![directory] = [k \in Keys |-> Absent]]

\* views.py:72-73 and api.py:47-48
HtmlPath(directory, key) == << directory, key, "tables.html" >>
JsonPath(directory, key) == << directory, key, "tables.json" >>

\* Path(target_path).exists() for a recorded artifact path
path_exists(d, path) ==
    /\ path # NonePath
    /\ d[path[1]][path[2]].kind = "dir"
    /\ IF path[3] = "tables.html" THEN d[path[1]][path[2]].html
                                  ELSE d[path[1]][path[2]].json

\* ------------------------------------------------------------- coroutines
IdleUpload == [ pc |-> "idle", files |-> << >>, i |-> 0, saved_files |-> << >>,
                sync |-> FALSE, outcome |-> None ]
IdleTask   == [ pc |-> "idle", i |-> 0, result |-> None, message |-> None ]
IdleExtract == [ pc |-> "idle", request_id |-> 0, file_name |-> None ]
NoHistory  == [ cancelled_queued |-> {} ]

\* the executor before any call was handed to it.  Spec and RegistrySpec leave
\* it alone: their bounds never have more calls in flight than it has workers
NoPool == [ started |-> {}, hung |-> {} ]

\* no direct call on the registry yet (under Spec the handlers are its callers)
NoCall == [ n |-> 0, op |-> "none" ]

\* a coroutine between two awaits: the event loop runs nothing else meanwhile
UploadRunning(r) ==
    \/ upl[r].pc \in {"add_file", "queue", "spawn"}
    \/ upl[r].pc = "await_queue" /\ task[r].pc \in {"done", "crashed"}
TaskRunning(r) ==
    task[r].pc \in {"check", "upd_extract", "mkdir", "write_html", "upd_render",
                    "write_json", "upd_finished", "mark_error"}
ExtractRunning(e) ==
    ext[e].pc \in {"mkdir", "write_html", "write_json", "update"}

LoopFree ==
    /\ \A r \in DOMAIN upl : ~UploadRunning(r) /\ ~TaskRunning(r)
    /\ \A e \in DOMAIN ext : ~ExtractRunning(e)

\* the requests a client can name: those whose id the redirect has disclosed
\* (views.py:102), and ids the registry does not hold
Addressable(r) == r \notin DOMAIN records \/ upl[r].pc = "done"

Init ==
    /\ records = << >>
    /\ disk = [ dir \in Dirs |-> [ k \in Keys |-> Absent ] ]
    /\ timer = [ r \in ReqIds |-> FALSE ]
    /\ upl = [ r \in ReqIds |-> IdleUpload ]
    /\ task = [ r \in ReqIds |-> IdleTask ]
    /\ ext = [ e \in ExtSlots |-> IdleExtract ]
    /\ now = 0
    /\ hist = [ r \in ReqIds |-> NoHistory ]
    /\ call = NoCall
    /\ pool = NoPool

\* time.time() moves on
Tick ==
    /\ now < MaxTime
    /\ now' = now + 1
    /\ UNCHANGED << records, disk, timer, upl, task, ext, hist, call, pool >>

\* ------------------------------------------------- app/views.py: upload
UploadInputs == UNION { [1..n -> FileNames] : n \in 0..MaxFiles }

\* views.py:41-54  from the call to the first await of safe_save_upload
upload_start(files) ==
    /\ LoopFree
    /\ IF files = << >>
       THEN UNCHANGED vars                      \* 422 "No files uploaded"
       ELSE /\ \E r \in DOMAIN upl : upl[r].pc = "idle"
            /\ LET r == CHOOSE x \in DOMAIN upl :
                          upl[x].pc = "idle" /\ \A y \in 1..(x - 1) : upl[y].pc # "idle"
               IN  /\ records' = create_request(records, r, temp_request_dir(r))
                   /\ upl' = [upl EXCEPT ![r] = [ pc |-> "save", files |-> files,
                                                  i |-> 1, saved_files |-> << >>,
                                                  sync |-> FALSE, outcome |-> None ]]
            /\ UNCHANGED << disk, timer, task, ext, now, hist, call, pool >>

\* what the client sent as one file: a file safe_save_upload takes, one of a
\* content type outside ALLOWED_MIME_TYPES, one larger than max_upload_bytes()
SaveOutcomes == {"saved", "unsupported", "too_large"}

\* utils.py:38-57  how safe_save_upload ends: ensure_allowed_mime raises 415
\* first, destination.open("wb") raises IsADirectoryError on a directory, the
\* read loop raises 413 past the limit, else the size is returned
safe_save_upload(outcome, d, work_dir, hashed) ==
    IF outcome = "unsupported" THEN "unsupported"
    ELSE IF d[work_dir][hashed].kind = "dir" THEN "is_a_directory"
    ELSE outcome

\* the client errors among these: HTTPException 415 and 413
Rejected == {"unsupported", "too_large"}

\* safe_save_upload without its size limit
save_raises_no_limit(ended) == ended \notin {"saved", "too_large"}

\* views.py:54  the await raises, and upload ends, unless the file was saved
save_raises(ended) == ended # "saved"

\* views.py:50-102  the upload coroutine after its first await, one step per
\* statement that writes the registry or the disk
upload(r) ==
    LET u        == upl[r]
        original == original_name(u.files[u.i])
        hashed   == hashed_filename(original)
        work_dir == temp_request_dir(r)
    IN
    CASE u.pc = "save" ->
            \* await asyncio.to_thread(safe_save_upload, upload_file, dest) returns
            /\ LoopFree
            /\ \E outcome \in SaveOutcomes :
                 LET ended == safe_save_upload(outcome, disk, work_dir, hashed)
                 IN  /\ disk' = CASE ended = "too_large" ->   \* unlink, then 413
                                      [disk EXCEPT ![work_dir][hashed] = Absent]
                                 [] ended = "saved" ->
                                      [disk EXCEPT ![work_dir][hashed] = SavedFile]
                                 [] OTHER -> disk
                     /\ upl' = [upl EXCEPT ![r].outcome = ended,
                                           ![r].pc = IF save_raises(ended) THEN "failed"
                                                     ELSE "add_file"]
            /\ UNCHANGED << records, timer, task, ext, now, hist, call, pool >>
      [] u.pc = "add_file" ->
            \* views.py:55-56; a KeyError of the registry ends the handler
            /\ IF add_file_raises(records, r)
               THEN /\ records' = records
                    /\ upl' = [upl EXCEPT ![r].pc = "failed",
                                          ![r].outcome = "KeyError"]
               ELSE /\ records' = add_file(records, r, FileStatus(hashed, original))
                    /\ upl' = [upl EXCEPT ![r].pc = "queue"]
            /\ UNCHANGED << disk, timer, task, ext, now, hist, call, pool >>
      [] u.pc = "queue" ->
            \* views.py:57-58, then the next iteration up to its await
            /\ IF update_raises(records, r, hashed)
               THEN /\ records' = records
                    /\ upl' = [upl EXCEPT ![r].pc = "failed",
                                          ![r].outcome = "KeyError"]
               ELSE /\ records' = update(records, r, hashed, "queued",
                                         stage_progress("received"), None, NonePath,
                                         NonePath, now)
                    /\ upl' = [upl EXCEPT ![r].saved_files = Append(@, hashed),
                                          ![r].i = u.i + 1,
                                          ![r].outcome = None,
                                          ![r].pc = IF u.i < Len(u.files) THEN "save"
                                                    ELSE "spawn"]
            /\ UNCHANGED << disk, timer, task, ext, now, hist, call, pool >>
      [] u.pc = "spawn" ->
            \* views.py:95-102  os.getenv("SYNC_PIPELINE") decides
            /\ \E sync \in BOOLEAN :
                 IF sync
                 THEN \* await process_queue(): its body runs in this coroutine
                      /\ upl' = [upl EXCEPT ![r].pc = "await_queue", ![r].sync = TRUE]
                      /\ task' = [task EXCEPT ![r] = [IdleTask EXCEPT !.pc = "check",
                                                                      !.i = 1]]
                 ELSE \* asyncio.create_task(process_queue()); return the redirect
                      /\ upl' = [upl EXCEPT ![r].pc = "done"]
                      /\ task' = [task EXCEPT ![r] = [IdleTask EXCEPT !.pc = "start",
                                                                      !.i = 1]]
            /\ UNCHANGED << records, disk, timer, ext, now, hist, call, pool >>
      [] u.pc = "await_queue" ->
            \* process_queue has returned (or raised) inside the synchronous upload
            /\ task[r].pc \in {"done", "crashed"}
            /\ upl' = [upl EXCEPT ![r].pc = IF task[r].pc = "done" THEN "done"
                                            ELSE "failed"]
            /\ UNCHANGED << records, disk, timer, task, ext, now, hist, call, pool >>
      [] OTHER -> FALSE


\* ------------------------------------------ app/views.py: process_queue
\* the loop of process_queue ending one file early
queue_exhausted_early(i, saved_files) == i >= Len(saved_files)

\* views.py:61  `for hashed, path in saved_files` has run out of files
queue_exhausted(i, saved_files) == i > Len(saved_files)

\* process_queue without its look at the entry's status
skip_cancelled_never(recs, request_id, hashed) == FALSE

\* views.py:63-66  the file is skipped when its entry says cancelled
skip_cancelled(recs, request_id, hashed) ==
    /\ HasFile(recs, request_id, hashed)
    /\ FileOf(recs, request_id, hashed).status = "cancelled"

\* views.py:60-93  the orchestration coroutine of request r, one step per
\* statement that writes the registry or the disk; `i` is the position in
\* saved_files, `message` the text of the exception being handled
process_queue(r) ==
    LET t        == task[r]
        saved    == upl[r].saved_files
        hashed   == saved[t.i]
        work_dir == temp_request_dir(r)
        goto(pc)       == [task EXCEPT ![r].pc = pc]
        raise(message) == [task EXCEPT ![r].pc = "mark_error", ![r].message = message]
        next_file      == [task EXCEPT ![r].pc = "check", ![r].i = t.i + 1,
                                       ![r].result = None, ![r].message = None]
    IN
    CASE t.pc = "start" ->
            \* the task made by asyncio.create_task gets the event loop
            /\ LoopFree
            /\ task' = goto("check")
            /\ UNCHANGED << records, disk, timer, upl, ext, now, hist, call, pool >>
      [] t.pc = "check" /\ queue_exhausted(t.i, saved) ->
            \* views.py:93  pipeline_utils.cleanup_later(work_dir)
            /\ timer' = cleanup_later(timer, r)
            /\ task' = goto("done")
            /\ UNCHANGED << records, disk, upl, ext, now, hist, call, pool >>
      [] t.pc = "check" /\ ~queue_exhausted(t.i, saved) ->
            \* views.py:63-68
            IF skip_cancelled(records, r, hashed)
            THEN /\ task' = next_file
                 /\ UNCHANGED << records, disk, timer, upl, ext, now, hist, call, pool >>
            ELSE IF update_raises(records, r, hashed)
            THEN /\ task' = raise("KeyError")
                 /\ UNCHANGED << records, disk, timer, upl, ext, now, hist, call, pool >>
            ELSE /\ records' = update(records, r, hashed, "processing",
                                      stage_progress("decide"), None, NonePath,
                                      NonePath, now)
                 /\ task' = goto("pipeline")
                 /\ UNCHANGED << disk, timer, upl, ext, now, hist, call, pool >>
      [] t.pc = "pipeline" ->
            \* await asyncio.to_thread(run_pipeline, path, work_dir) returns or raises
            /\ LoopFree
            /\ \/ task' = [task EXCEPT ![r].pc = "upd_extract",
                                         ![r].result = "PipelineResult"]
               \/ \E message \in PipelineMessages : task' = raise(message)
            /\ UNCHANGED << records, disk, timer, upl, ext, now, hist, call, pool >>
      [] t.pc = "upd_extract" ->
            \* views.py:69
            /\ IF update_raises(records, r, hashed)
               THEN records' = records /\ task' = raise("KeyError")
               ELSE /\ records' = update(records, r, hashed, None,
                                         stage_progress("extract"), None, NonePath,
                                         NonePath, now)
                    /\ task' = goto("mkdir")
            /\ UNCHANGED << disk, timer, upl, ext, now, hist, call, pool >>
      [] t.pc = "mkdir" ->
            \* views.py:70-71  output_dir = work_dir / hashed
            /\ IF mkdir_raises(disk, work_dir, hashed)
               THEN disk' = disk /\ task' = raise("FileExistsError")
               ELSE disk' = mkdir(disk, work_dir, hashed) /\ task' = goto("write_html")
            /\ UNCHANGED << records, timer, upl, ext, now, hist, call, pool >>
      [] t.pc = "write_html" ->
            \* views.py:74
            /\ IF write_raises(disk, work_dir, hashed)
               THEN disk' = disk /\ task' = raise("FileNotFoundError")
               ELSE disk' = write_html(disk, work_dir, hashed) /\ task' = goto("upd_render")
            /\ UNCHANGED << records, timer, upl, ext, now, hist, call, pool >>
      [] t.pc = "upd_render" ->
            \* views.py:75
            /\ IF update_raises(records, r, hashed)
               THEN records' = records /\ task' = raise("KeyError")
               ELSE /\ records' = update(records, r, hashed, None,
                                         stage_progress("render"), None, NonePath,
                                         NonePath, now)
                    /\ task' = goto("write_json")
            /\ UNCHANGED << disk, timer, upl, ext, now, hist, call, pool >>
      [] t.pc = "write_json" ->
            \* views.py:76-79
            /\ IF write_raises(disk, work_dir, hashed)
               THEN disk' = disk /\ task' = raise("FileNotFoundError")
               ELSE disk' = write_json(disk, work_dir, hashed) /\ task' = goto("upd_finished")
            /\ UNCHANGED << records, timer, upl, ext, now, hist, call, pool >>
      [] t.pc = "upd_finished" ->
            \* views.py:80-87
            /\ IF update_raises(records, r, hashed)
               THEN records' = records /\ task' = raise("KeyError")
               ELSE /\ records' = update(records, r, hashed, "finished", 100, None,
                                         HtmlPath(work_dir, hashed),
                                         JsonPath(work_dir, hashed), now)
                    /\ task' = next_file
            /\ UNCHANGED << disk, timer, upl, ext, now, hist, call, pool >>
      [] t.pc = "mark_error" ->
            \* views.py:88-91  a KeyError of mark_error leaves process_queue
            /\ IF update_raises(records, r, hashed)
               THEN records' = records /\ task' = goto("crashed")
               ELSE /\ records' = mark_error(records, r, hashed, t.message, now)
                    /\ task' = next_file
            /\ UNCHANGED << disk, timer, upl, ext, now, hist, call, pool >>
      [] OTHER -> FALSE

\* utils.py:105-115  the thread started by cleanup_later ends its wait
cleanup_thread(r) ==
    /\ timer[r]
    /\ timer' = [timer EXCEPT ![r] = FALSE]
    /\ disk' = cleanup_directory(disk, temp_request_dir(r))
    /\ UNCHANGED << records, upl, task, ext, now, hist, call, pool >>

\* ---------------------------------------------------- app/api.py: cancel
\* api.py:90-99  the status code of the answer
cancel_code(recs, request_id, file_slug) ==
    IF request_id \notin DOMAIN recs THEN 404
    ELSE IF ~HasFile(recs, request_id, file_slug) THEN 404
    ELSE 200

cancel(r, k) ==
    /\ LoopFree
    /\ Addressable(r)
    /\ IF cancel_code(records, r, k) = 200
       THEN /\ records' = registry_cancel(records, r, k, now)
            /\ hist' = [hist EXCEPT
                         ![r].cancelled_queued =
                             IF FileOf(records, r, k).status = "queued"
                             THEN @ \cup {k} ELSE @]
       ELSE UNCHANGED << records, hist >>
    /\ UNCHANGED << disk, timer, upl, task, ext, now, call, pool >>

\* --------------------------------------------------- app/api.py: extract
\* api.py:33-43  the checks made before the pipeline is run
extract_code(recs, d, request_id, file_name) ==
    IF request_id \notin DOMAIN recs THEN 404
    ELSE IF ~HasFile(recs, request_id, file_name) THEN 404
    ELSE IF ~exists(d, get(recs, request_id).directory, file_name) THEN 404
    ELSE 200

extract_start(e, r, k) ==
    /\ LoopFree
    /\ Addressable(r)
    /\ ext[e].pc = "idle"
    /\ \A other \in 1..(e - 1) : ext[other].pc # "idle"   \* slots are anonymous
    /\ IF extract_code(records, disk, r, k) = 200
       THEN ext' = [ext EXCEPT ![e] = [ pc |-> "pipeline", request_id |-> r,
                                        file_name |-> k ]]
       ELSE ext' = ext
    /\ UNCHANGED << records, disk, timer, upl, task, now, hist, call, pool >>

\* api.py:45-63  after the await; an exception ends the call with a 500
extract(e) ==
    LET x         == ext[e]
        r         == x.request_id
        k         == x.file_name
        directory == temp_request_dir(r)
        goto(pc)  == [ext EXCEPT ![e].pc = pc]
        return    == [ext EXCEPT ![e] = IdleExtract]
    IN
    CASE x.pc = "pipeline" ->
            /\ LoopFree
            /\ \/ ext' = goto("mkdir")
               \/ ext' = return
            /\ UNCHANGED << records, disk, timer, upl, task, now, hist, call, pool >>
      [] x.pc = "mkdir" ->
            /\ IF mkdir_raises(disk, directory, k)
               THEN disk' = disk /\ ext' = return
               ELSE disk' = mkdir(disk, directory, k) /\ ext' = goto("write_html")
            /\ UNCHANGED << records, timer, upl, task, now, hist, call, pool >>
      [] x.pc = "write_html" ->
            /\ IF write_raises(disk, directory, k)
               THEN disk' = disk /\ ext' = return
               ELSE disk' = write_html(disk, directory, k) /\ ext' = goto("write_json")
            /\ UNCHANGED << records, timer, upl, task, now, hist, call, pool >>
      [] x.pc = "write_json" ->
            /\ IF write_raises(disk, directory, k)
               THEN disk' = disk /\ ext' = return
               ELSE disk' = write_json(disk, directory, k) /\ ext' = goto("update")
            /\ UNCHANGED << records, timer, upl, task, now, hist, call, pool >>
      [] x.pc = "update" ->
            /\ IF update_raises(records, r, k)
               THEN records' = records
               ELSE records' = update(records, r, k, "finished", 100, None,
                                      HtmlPath(directory, k), JsonPath(directory, k),
                                      now)
            /\ ext' = return
            /\ UNCHANGED << disk, timer, upl, task, now, hist, call, pool >>
      [] OTHER -> FALSE

\* ----------------------------------------------------- app/api.py: status
\* the status query counting a cancelled file as done
DoneStatusesWithCancelled == {"finished", "error", "cancelled"}

\* api.py:84  the statuses that leave `done` true
DoneStatuses == {"finished", "error"}

\* api.py:72-85  the loop over the files: the payload entries and the flag
RECURSIVE status_loop(_, _, _)
status_loop(files, payload, done) ==
    IF files = << >> THEN [ files |-> payload, done |-> done ]
    ELSE LET file_status == Head(files)
             item == [ name |-> file_status.display_name,
                       slug |-> file_status.name,
                       status |-> file_status.status,
                       progress |-> file_status.progress,
                       error |-> file_status.error ]
         IN  status_loop(Tail(files), Append(payload, item),
                         IF file_status.status \notin DoneStatuses
                         THEN FALSE ELSE done)

\* api.py:66-86
status_endpoint(recs, request_id) ==
    LET files == list_files(recs, request_id)
    IN  IF files = << >> THEN [ code |-> 404 ]
        ELSE [ code |-> 200, body |-> status_loop(files, << >>, TRUE) ]

\* views.py:105-117 and 120-132  result and status_partial
result(recs, request_id) ==
    IF request_id \notin DOMAIN recs THEN [ code |-> 404 ]
    ELSE [ code |-> 200, files |-> list_files(recs, request_id) ]

\* --------------------------------------------------- app/api.py: download
\* The path argument file_slug is kept as the sequence of its parts between
\* dots: << "abc", "html" >> is "abc.html".  A hex digest holds no dot.
RECURSIVE Join(_)
Join(parts) ==
    IF Len(parts) = 1 THEN parts[1]
    ELSE Join(SubSeq(parts, 1, Len(parts) - 1)) \o "." \o parts[Len(parts)]

\* the parts of the key hashed_filename gives to a filename
KeyParts(filename) ==
    IF suffix(filename) = "" THEN << sha256(filename) >>
    ELSE << sha256(filename), "pdf" >>

\* the path arguments a client sends: a key alone, a key with an extension,
\* and the same for a key no request holds
DownloadSlugs ==
    LET keys == { KeyParts(original_name(n)) : n \in FileNames } \cup { << "0000" >> }
    IN  keys \cup { k \o << x >> : k \in keys, x \in {"html", "json", "xml"} }

\* api.py:108
allowed_extensions == {"html", "json"}

\* api.py:109-112  slug, ext = file_slug.rsplit(".", 1): ValueError without a dot
rsplit_raises(file_slug) == Len(file_slug) < 2
rsplit_slug(file_slug) == Join(SubSeq(file_slug, 1, Len(file_slug) - 1))
rsplit_ext(file_slug) == file_slug[Len(file_slug)]

\* download looking the file up before it looks at the extension
download_lookup_first(recs, d, request_id, file_slug) ==
    IF request_id \notin DOMAIN recs THEN 404
    ELSE IF rsplit_raises(file_slug) THEN 400
    ELSE IF ~HasFile(recs, request_id, rsplit_slug(file_slug)) THEN 404
    ELSE IF rsplit_ext(file_slug) \notin allowed_extensions THEN 415
    ELSE LET status == FileOf(recs, request_id, rsplit_slug(file_slug))
             target_path == IF rsplit_ext(file_slug) = "html" THEN status.html_path
                            ELSE status.json_path
         IN  IF target_path = NonePath \/ ~path_exists(d, target_path) THEN 404
             ELSE 200

\* api.py:101-128  the status code of the answer
download(recs, d, request_id, file_slug) ==
    IF request_id \notin DOMAIN recs THEN 404
    ELSE IF rsplit_raises(file_slug) THEN 400
    ELSE IF rsplit_ext(file_slug) \notin allowed_extensions THEN 415
    ELSE IF ~HasFile(recs, request_id, rsplit_slug(file_slug)) THEN 404
    ELSE LET status == FileOf(recs, request_id, rsplit_slug(file_slug))
             target_path == IF rsplit_ext(file_slug) = "html" THEN status.html_path
                            ELSE status.json_path
         IN  IF target_path = NonePath \/ ~path_exists(d, target_path) THEN 404
             ELSE 200

\* ---------------------------------------------------------- specification
Next ==
    \/ Tick
    \/ \E files \in UploadInputs : upload_start(files)
    \/ \E r \in ReqIds : upload(r)
    \/ \E r \in ReqIds : process_queue(r)
    \/ \E r \in ReqIds : cleanup_thread(r)
    \/ \E r \in ReqIds, k \in Keys : cancel(r, k)
    \/ \E e \in ExtSlots, r \in ReqIds, k \in Keys : extract_start(e, r, k)
    \/ \E e \in ExtSlots : extract(e)

Spec == Init /\ [][Next]_vars

\* Spec with the scheduling the runtime gives: the event loop runs every ready
\* coroutine, a call handed to asyncio.to_thread that returns does return
\* (safe_save_upload, and run_pipeline when every invocation returns), and the
\* cleanup thread ends its wait.  Nothing is assumed of the clients or the clock.
FairSpec ==
    /\ Spec
    /\ \A r \in ReqIds : SF_vars(upload(r))
    /\ \A r \in ReqIds : SF_vars(process_queue(r))
    /\ \A e \in ExtSlots : SF_vars(extract(e))
    /\ \A r \in ReqIds : WF_vars(cleanup_thread(r))


\* ------------------------------------- app/state.py called by a direct caller
\* RequestRegistry as its callers see it: any sequence of at most MaxCalls calls
\* of its methods on the registry that main.py:106 constructs.  `call` records
\* the last call: its arguments, whether it raised, and the registry before it.
MaxCalls == 4

\* state.py:39-43  no lookup of request_id and no raise
create_request_raises(recs, request_id) == FALSE

\* state.py:99-102  KeyError when line 102 is reached with file_name not a key
cancel_raises(recs, request_id, file_name) ==
    /\ ~(request_id \notin DOMAIN recs \/ IndexOf(recs[request_id].files, file_name) = 0)
    /\ ~HasFile(recs, request_id, file_name)

\* state.py:66-70  the keyword arguments of update, None when left out
NoArgs == [ status |-> None, progress |-> NoneNum, error |-> None,
            html_path |-> NonePath, json_path |-> NonePath ]

UpdateArgs(request_id, file_name) ==
    [ status    : {None, "processing", "finished", "error", "cancelled"},
      progress  : {NoneNum, stage_progress("ocr")},
      error     : {None} \cup PipelineMessages,
      html_path : {NonePath, HtmlPath(temp_request_dir(request_id), file_name)},
      json_path : {NonePath, JsonPath(temp_request_dir(request_id), file_name)} ]

Called(op, request_id, file_name, args, raised) ==
    [ n |-> call.n + 1, op |-> op, request_id |-> request_id,
      file_name |-> file_name, args |-> args, raised |-> raised,
      before |-> records ]

\* registry.create_request(request_id, directory)
call_create_request(r) ==
    /\ call.n < MaxCalls
    /\ records' = IF create_request_raises(records, r) THEN records
                  ELSE create_request(records, r, temp_request_dir(r))
    /\ call' = Called("create_request", r, None, NoArgs,
                      create_request_raises(records, r))
    /\ UNCHANGED << disk, timer, upl, task, ext, now, hist, pool >>

\* registry.add_file(request_id, FileStatus(name=..., display_name=...))
call_add_file(r, filename) ==
    LET original == original_name(filename)
        hashed   == hashed_filename(original)
    IN  /\ call.n < MaxCalls
        /\ records' = IF add_file_raises(records, r) THEN records
                      ELSE add_file(records, r, FileStatus(hashed, original))
        /\ call' = Called("add_file", r, hashed, NoArgs, add_file_raises(records, r))
        /\ UNCHANGED << disk, timer, upl, task, ext, now, hist, pool >>

\* registry.update(request_id, file_name, **args)
call_update(r, k, args) ==
    /\ call.n < MaxCalls
    /\ records' = update(records, r, k, args.status, args.progress, args.error,
                          args.html_path, args.json_path, now)
    /\ call' = Called("update", r, k, args, update_raises(records, r, k))
    /\ UNCHANGED << disk, timer, upl, task, ext, now, hist, pool >>

\* registry.mark_error(request_id, file_name, message)
call_mark_error(r, k, message) ==
    /\ call.n < MaxCalls
    /\ records' = mark_error(records, r, k, message, now)
    /\ call' = Called("mark_error", r, k,
                      [NoArgs EXCEPT !.status = "error", !.progress = 100,
                                     !.error = message],
                      update_raises(records, r, k))
    /\ UNCHANGED << disk, timer, upl, task, ext, now, hist, pool >>

\* registry.cancel(request_id, file_name)
call_cancel(r, k) ==
    /\ call.n < MaxCalls
    /\ records' = IF cancel_raises(records, r, k) THEN records
                  ELSE registry_cancel(records, r, k, now)
    /\ call' = Called("cancel", r, k, NoArgs, cancel_raises(records, r, k))
    /\ UNCHANGED << disk, timer, upl, task, ext, now, hist, pool >>

\* registry.cleanup(request_id)
call_cleanup(r) ==
    /\ call.n < MaxCalls
    /\ records' = cleanup(records, r)
    /\ call' = Called("cleanup", r, None, NoArgs, FALSE)
    /\ UNCHANGED << disk, timer, upl, task, ext, now, hist, pool >>

RegistryNext ==
    \/ \E r \in ReqIds : call_create_request(r)
    \/ \E r \in ReqIds, filename \in FileNames : call_add_file(r, filename)
    \/ \E r \in ReqIds, k \in Keys : \E args \in UpdateArgs(r, k) : call_update(r, k, args)
    \/ \E r \in ReqIds, k \in Keys, message \in PipelineMessages :
          call_mark_error(r, k, message)
    \/ \E r \in ReqIds, k \in Keys : call_cancel(r, k)
    \/ \E r \in ReqIds : call_cleanup(r)

RegistrySpec == Init /\ [][RegistryNext]_vars


\* ------------------------------------------------------------------ claims
\* the file key the orchestration task of r is working on
Current(r) == upl[r].saved_files[task[r].i]

\* the pcs of process_queue between the return of the pipeline call and the
\* last registry write for the file
AfterPipeline == {"upd_extract", "mkdir", "write_html", "upd_render", "write_json",
                  "upd_finished", "mark_error"}

\* the orchestration task of r takes a step
TaskStep(r) == task'[r] # task[r]

\* C1: when the pipeline call of a file has returned successfully and no cancel
\* was issued for the file, the orchestration task leaves the file at
\* status=finished, progress=100, with both artifact paths recorded, the
\* artifacts being written into the subdirectory <work_dir>/<file key>.
C1_FinishedAfterSuccess ==
    [][\A r \in DOMAIN upl :
         ( /\ task[r].pc \in {"upd_finished", "mark_error"}
           /\ task[r].result = "PipelineResult"
           /\ FileOf(records, r, Current(r)).status # "cancelled"
           /\ TaskStep(r) )
         => LET k == Current(r)
                e == FileOf(records', r, k)
                work_dir == temp_request_dir(r)
            IN  /\ e.status = "finished"
                /\ e.progress = 100
                /\ e.html_path = HtmlPath(work_dir, k)
                /\ e.json_path = JsonPath(work_dir, k)
                /\ path_exists(disk', e.html_path)
                /\ path_exists(disk', e.json_path)
      ]_vars

\* C2: when a file was cancelled while its pipeline call was in flight, the
\* orchestration task writes nothing further for the file after the call
\* returns: its entry stays as cancel left it (status cancelled, progress 100).
C2_LateResultDiscarded ==
    [][\A r \in DOMAIN upl :
         ( /\ task[r].pc \in AfterPipeline \cup {"pipeline"}
           /\ FileOf(records, r, Current(r)).status = "cancelled"
           /\ TaskStep(r) )
         => LET k == Current(r)
            IN  /\ FileOf(records', r, k) = FileOf(records, r, k)
                /\ FileOf(records', r, k).status = "cancelled"
                /\ FileOf(records', r, k).progress = 100
      ]_vars

\* C3: terminal statuses are sticky: once the status of a file is finished,
\* error or cancelled, no step changes the status value.
C3_TerminalSticky ==
    [][\A r \in DOMAIN records : \A i \in 1..Len(records[r].files) :
         records[r].files[i].status \in Terminal
         => records'[r].files[i].status = records[r].files[i].status
      ]_vars

\* C4: a file cancelled while still queued is skipped by the orchestration
\* task: it never has status processing, the task is never at or past the
\* pipeline call for it (no invocation is made), no step of the task writes its
\* entry, and it has status=cancelled, progress=100 up to and at the end of the
\* task.
C4_Inv ==
    \A r \in DOMAIN upl : \A k \in hist[r].cancelled_queued :
        /\ FileOf(records, r, k).status # "processing"
        /\ task[r].pc \in AfterPipeline \cup {"pipeline"} => Current(r) # k
        /\ task[r].pc # "done" => /\ FileOf(records, r, k).status = "cancelled"
                                  /\ FileOf(records, r, k).progress = 100

C4_Step ==
    \A r \in DOMAIN upl : \A k \in hist[r].cancelled_queued :
        TaskStep(r) =>
            /\ FileOf(records', r, k) = FileOf(records, r, k)
            /\ task'[r].pc = "done" => /\ FileOf(records', r, k).status = "cancelled"
                                       /\ FileOf(records', r, k).progress = 100

C4_CancelledQueuedSkipped == [][C4_Step /\ C4_Inv']_vars

\* C4 witness: the task has run to its end past a file cancelled while queued
C4_Witness ==
    \E r \in DOMAIN upl : \E k \in hist[r].cancelled_queued :
        /\ task[r].pc = "done"
        /\ Len(upl[r].saved_files) = 2
        /\ \E j \in 1..Len(records[r].files) : records[r].files[j].status = "error"
        /\ FileOf(records, r, k).status = "cancelled"


\* C5: a pipeline failure of one file is recorded as status=error, progress=100,
\* error=the failure message for that file only and the task goes on to the next
\* file, leaving every other entry as it was; and a file whose own pipeline call
\* succeeds (and is not cancelled) is left at finished also when a sibling's
\* pipeline failure has been recorded before it.
C5_FailureIsolated ==
    [][\A r \in DOMAIN upl :
         /\ ( /\ task[r].pc = "mark_error"
              /\ task[r].message \in PipelineMessages
              /\ TaskStep(r) )
            => LET k == Current(r)
                   i == IndexOf(records[r].files, k)
                   e == FileOf(records', r, k)
               IN  /\ e.status = "error" /\ e.progress = 100
                   /\ e.error = task[r].message
                   /\ \A j \in 1..Len(records[r].files) :
                        j # i => records'[r].files[j] = records[r].files[j]
                   /\ task'[r].pc = "check" /\ task'[r].i = task[r].i + 1
         /\ ( /\ task[r].pc \in {"upd_finished", "mark_error"}
              /\ task[r].result = "PipelineResult"
              /\ FileOf(records, r, Current(r)).status # "cancelled"
              /\ \E j \in 1..Len(records[r].files) :
                    /\ records[r].files[j].name # Current(r)
                    /\ records[r].files[j].status = "error"
                    /\ records[r].files[j].error \in PipelineMessages
              /\ TaskStep(r) )
            => FileOf(records', r, Current(r)).status = "finished"
      ]_vars

\* C6: the progress of a file never decreases from one registry write to the next.
C6_ProgressMonotonic ==
    [][\A r \in DOMAIN records : \A i \in 1..Len(records[r].files) :
         records'[r].files[i].progress >= records[r].files[i].progress
      ]_vars

\* C7: every file whose status is terminal has progress 100.
C7_TerminalProgress100 ==
    \A r \in DOMAIN records : \A i \in 1..Len(records[r].files) :
        records[r].files[i].status \in Terminal => records[r].files[i].progress = 100

\* C8: finished_at is written exactly once per file: the step that first makes
\* the status terminal stamps it with the current time, and once set it is
\* never changed.
C8_FinishedAtOnce ==
    [][\A r \in DOMAIN records : \A i \in 1..Len(records[r].files) :
         LET e == records[r].files[i]
             f == records'[r].files[i]
         IN  /\ (e.status \notin Terminal /\ f.status \in Terminal)
                    => f.finished_at = now
             /\ e.finished_at # NoneNum => f.finished_at = e.finished_at
      ]_vars

\* C9: for a request with at least one file the status query answers 200 and
\* its done flag is true exactly when every file has status finished or error
\* (a pending, queued, processing or cancelled file makes it false).
C9_DoneIffFinishedOrError ==
    \A r \in DOMAIN records :
        Len(records[r].files) >= 1 =>
            LET answer == status_endpoint(records, r)
            IN  /\ answer.code = 200
                /\ answer.body.done <=>
                     \A i \in 1..Len(records[r].files) :
                        records[r].files[i].status \in {"finished", "error"}
                /\ (\E i \in 1..Len(records[r].files) :
                        records[r].files[i].status \in
                            {"pending", "queued", "processing", "cancelled"})
                     => ~answer.body.done

\* C9 witness: a request of two files, all finished or error, answered done
C9_Witness ==
    \E r \in DOMAIN records :
        /\ Len(records[r].files) = 2
        /\ status_endpoint(records, r).code = 200
        /\ status_endpoint(records, r).body.done

\* C10: once a synchronous upload has returned its redirect, the request is in
\* the registry, the result view and the status query answer 200, and every
\* file of the request has a terminal status (none pending, queued or processing).
C10_SyncUploadAllTerminal ==
    \A r \in DOMAIN upl :
        (upl[r].pc = "done" /\ upl[r].sync) =>
            /\ r \in DOMAIN records
            /\ result(records, r).code = 200
            /\ status_endpoint(records, r).code = 200
            /\ Len(records[r].files) >= 1
            /\ \A i \in 1..Len(records[r].files) :
                 /\ records[r].files[i].status \in Terminal
                 /\ records[r].files[i].status \notin {"pending", "queued", "processing"}

\* C10 witness: a synchronous upload of two distinct files has returned
C10_Witness ==
    \E r \in DOMAIN upl :
        /\ upl[r].pc = "done" /\ upl[r].sync
        /\ Len(upl[r].saved_files) = 2
        /\ Len(records[r].files) = 2

\* ---------------------------------------------- claims on the registry's API
\* the file keys of a list of FileStatus entries, in the order of the list
Names(files) == [ i \in 1..Len(files) |-> files[i].name ]

\* C11: list_files returns the entries of a request in the order in which their
\* keys were first added with add_file: an add_file of a new key puts it last,
\* an add_file of a key already held keeps every position, and update,
\* mark_error and cancel never reorder; the status query lists the files in
\* that same order.
C11_ListFilesInAddOrder ==
    /\ call.op # "none" =>
         LET r      == call.request_id
             before == Names(list_files(call.before, r))
             after  == Names(list_files(records, r))
         IN  /\ (call.op = "add_file" /\ ~call.raised) =>
                   after = IF \E i \in 1..Len(before) : before[i] = call.file_name
                           THEN before
                           ELSE Append(before, call.file_name)
             /\ call.op \in {"update", "mark_error", "cancel"} => after = before
    /\ \A r \in DOMAIN records :
         LET answer == status_endpoint(records, r)
         IN  answer.code = 200 =>
               [ i \in 1..Len(answer.body.files) |-> answer.body.files[i].slug ]
                   = Names(list_files(records, r))

\* C11 witness: two files were added, then the first one was updated
C11_Witness ==
    /\ call.op = "update" /\ ~call.raised
    /\ Len(list_files(records, call.request_id)) = 2
    /\ call.file_name = list_files(records, call.request_id)[1].name
    /\ list_files(records, call.request_id)[1] # list_files(call.before, call.request_id)[1]
    /\ status_endpoint(records, call.request_id).code = 200

\* C12: cancel with an unknown request id, or with a known request and an
\* unknown file name, does not raise and leaves the whole registry unchanged.
C12_CancelUnknownIsNoOp ==
    ( /\ call.op = "cancel"
      /\ ~HasFile(call.before, call.request_id, call.file_name) )
    => /\ ~call.raised
       /\ records = call.before

\* C12 witness: cancel was called for a file name the (known) request lacks
C12_Witness ==
    /\ call.op = "cancel"
    /\ call.request_id \in DOMAIN call.before
    /\ Len(call.before[call.request_id].files) = 1
    /\ ~HasFile(call.before, call.request_id, call.file_name)

\* ------------------------------------------- claims on the handlers (Spec)
\* a step of the cancel handler: the only step that writes the registry and
\* moves no coroutine, no file and no clock
CancelStep ==
    /\ records' # records
    /\ UNCHANGED << disk, timer, upl, task, ext, now >>

\* C13: the cancel command on an existing file is acknowledged with 200
\* {status: cancelled}, and when the status of the file is already finished or
\* error it changes nothing of the entry (status, progress, error, artifact
\* paths, finished_at).
C13_CancelFinishedNoEffect ==
    [][\A r \in DOMAIN records : \A i \in 1..Len(records[r].files) :
         /\ cancel_code(records, r, records[r].files[i].name) = 200
         /\ ( CancelStep /\ records[r].files[i].status \in {"finished", "error"} )
            => records'[r].files[i] = records[r].files[i]
      ]_vars

\* ---------------------------------------- more claims on the registry's API
\* C14: create_request with an id the registry already holds fails, and the
\* record held and its files are left unchanged.
C14_CreateExistingFails ==
    ( /\ call.op = "create_request"
      /\ call.request_id \in DOMAIN call.before )
    => /\ call.raised
       /\ records = call.before

\* C15: update fails when the request id is absent or the file name is absent
\* from that request, and a failing update changes no field of any record.
C15_UpdateAbsentFails ==
    call.op = "update" =>
        /\ call.raised <=> ~HasFile(call.before, call.request_id, call.file_name)
        /\ call.raised => records = call.before

\* C15 witness: update was called for a file name the (known) request lacks
C15_Witness ==
    /\ call.op = "update" /\ call.raised
    /\ call.request_id \in DOMAIN call.before
    /\ Len(call.before[call.request_id].files) = 1
    /\ call.args.status = "finished"

\* C16: a successful update changes exactly the fields among status, progress,
\* error, html_path, json_path that the caller provides, plus finished_at when
\* it stamps it: every omitted field, and name, display_name and started_at,
\* keep their values, as does every other entry.
C16_UpdateFrame ==
    ( call.op = "update" /\ ~call.raised ) =>
        LET r == call.request_id
            i == IndexOf(call.before[r].files, call.file_name)
            e == call.before[r].files[i]
            f == records[r].files[i]
            a == call.args
        IN  /\ DOMAIN records = DOMAIN call.before
            /\ Len(records[r].files) = Len(call.before[r].files)
            /\ \A j \in 1..Len(records[r].files) :
                 j # i => records[r].files[j] = call.before[r].files[j]
            /\ [records[r] EXCEPT !.files = << >>]
                  = [call.before[r] EXCEPT !.files = << >>]
            /\ f.status    = IF a.status # None THEN a.status ELSE e.status
            /\ f.progress  = IF a.progress # NoneNum THEN a.progress ELSE e.progress
            /\ f.error     = IF a.error # None THEN a.error ELSE e.error
            /\ f.html_path = IF a.html_path # NonePath THEN a.html_path ELSE e.html_path
            /\ f.json_path = IF a.json_path # NonePath THEN a.json_path ELSE e.json_path
            /\ f.name = e.name
            /\ f.display_name = e.display_name
            /\ f.started_at = e.started_at
            /\ f.finished_at # e.finished_at
                  => (f.finished_at = now /\ a.status \in Terminal)

\* C16 witness: an update that gives only a status, finished, to an entry whose
\* progress is below 100 and whose error is set
C16_Witness ==
    /\ call.op = "update" /\ ~call.raised
    /\ call.args = [NoArgs EXCEPT !.status = "finished"]
    /\ FileOf(records, call.request_id, call.file_name).progress < 100
    /\ FileOf(records, call.request_id, call.file_name).error # None

\* C17: after a successful update whose resulting status is terminal (finished,
\* error or cancelled) finished_at is set; hence in every state reached through
\* registry operations a file with a terminal status has a finished_at.
C17_TerminalHasFinishedAt ==
    /\ ( call.op = "update" /\ ~call.raised ) =>
          LET f == FileOf(records, call.request_id, call.file_name)
          IN  f.status \in Terminal => f.finished_at # NoneNum
    /\ \A r \in DOMAIN records : \A i \in 1..Len(records[r].files) :
          records[r].files[i].status \in Terminal
             => records[r].files[i].finished_at # NoneNum

\* C18: cleanup removes the record of the request: afterwards get gives None
\* and list_files the empty list; cleanup of an id the registry does not hold
\* does not raise and changes nothing.
C18_CleanupRemovesRecord ==
    call.op = "cleanup" =>
        /\ ~call.raised
        /\ get(records, call.request_id) = NoneRecord
        /\ list_files(records, call.request_id) = << >>
        /\ call.request_id \notin DOMAIN call.before => records = call.before

\* C18 witness: cleanup of a request that held two files
C18_Witness ==
    /\ call.op = "cleanup"
    /\ call.request_id \in DOMAIN call.before
    /\ Len(call.before[call.request_id].files) = 2

\* ------------------------------------------ more claims on the handlers (Spec)
\* C19: the status query answers 404 exactly when the request id is not in the
\* registry: for every id the registry holds, a request without files included,
\* it answers 200, as the result view and the status-partial view do.
C19_Status404IffAbsent ==
    \A r \in ReqIds :
        /\ status_endpoint(records, r).code = 404 <=> r \notin DOMAIN records
        /\ status_endpoint(records, r).code = result(records, r).code

\* every entry of the request has a terminal status
AllTerminal(recs, request_id) ==
    \A i \in 1..Len(recs[request_id].files) :
        recs[request_id].files[i].status \in Terminal

\* C20: the deferred removal of a request's working storage is scheduled only
\* when every file of the request has a terminal status, and exactly once per
\* orchestration task: by the step that ends the task, which always ends (it
\* never leaves process_queue through an exception), and never again.
C20_CleanupScheduledOnce ==
    [][\A r \in DOMAIN upl :
         /\ ( timer'[r] /\ ~timer[r] )
            => /\ task[r].pc = "check" /\ task'[r].pc = "done"
               /\ \A j \in 1..Len(upl[r].saved_files) :
                     HasFile(records', r, upl[r].saved_files[j])
               /\ AllTerminal(records', r)
         /\ ( task'[r].pc = "done" /\ task[r].pc # "done" )
            => ( ~timer[r] /\ timer'[r] )
         /\ task[r].pc = "done"
            => ( task'[r] = task[r] /\ (timer'[r] => timer[r]) )
         /\ task'[r].pc # "crashed"
      ]_vars

\* C20 witness: the task has ended after one file failed in the pipeline, one
\* was cancelled, and the removal is scheduled
C20_Witness ==
    \E r \in DOMAIN upl :
        /\ task[r].pc = "done" /\ timer[r]
        /\ Len(records[r].files) = 2
        /\ \E i \in 1..2 : /\ records[r].files[i].status = "error"
                           /\ records[r].files[i].error \in PipelineMessages
        /\ \E i \in 1..2 : records[r].files[i].status = "cancelled"

\* --------------------------------------------------- claims on upload (Spec)
\* the set of the elements of a sequence
Range(seq) == { seq[i] : i \in 1..Len(seq) }

\* C21: when upload rejects a file with a client error (415 unsupported media
\* type, 413 too large) the failure ends the upload before any FileStatus is
\* added for that file: the step of the rejection writes nothing to the
\* registry, and the registry of a rejected upload holds exactly the entries of
\* the files saved before it.
C21_Step ==
    \A r \in DOMAIN upl :
        ( upl[r].pc = "save" /\ upl'[r] # upl[r] /\ upl'[r].outcome \in Rejected )
        => /\ upl'[r].pc = "failed"
           /\ records' = records

C21_Inv ==
    \A r \in DOMAIN upl :
        ( upl[r].pc = "failed" /\ upl[r].outcome \in Rejected )
        => /\ upl[r].i = Len(upl[r].saved_files) + 1
           /\ Range(Names(records[r].files)) = Range(upl[r].saved_files)
           /\ Len(records[r].files) = Cardinality(Range(upl[r].saved_files))

C21_RejectedFileNotRegistered == [][C21_Step /\ C21_Inv']_vars

\* C21 witness: the second file of an upload was rejected as too large after
\* the first one had been queued
C21_Witness ==
    \E r \in DOMAIN upl :
        /\ upl[r].pc = "failed" /\ upl[r].outcome = "too_large"
        /\ upl[r].i = 2
        /\ upl[r].files[1] # upl[r].files[2]
        /\ Len(records[r].files) = 1

\* C22: every uploaded file of a request has its own FileStatus: once the
\* files of an upload have all been saved, the file map of the request has one
\* entry per uploaded file, under distinct keys (also when two uploaded files
\* carry the same filename).
C22_OneEntryPerUploadedFile ==
    \A r \in DOMAIN upl :
        upl[r].pc \in {"spawn", "await_queue", "done"} =>
            /\ Len(records[r].files) = Len(upl[r].files)
            /\ Cardinality(Range(Names(records[r].files))) = Len(upl[r].files)

\* C23: the error field of a file is set only if its status is error: a file
\* that is finished or cancelled (or in any other status) has error = None.
C23_ErrorOnlyWhenError ==
    \A r \in DOMAIN records : \A i \in 1..Len(records[r].files) :
        records[r].files[i].error # None => records[r].files[i].status = "error"

\* C24: html_path and json_path of a file are set only if its status is
\* finished, and a finished file has both set.
C24_PathsOnlyWhenFinished ==
    \A r \in DOMAIN records : \A i \in 1..Len(records[r].files) :
        LET e == records[r].files[i]
        IN  /\ (e.html_path # NonePath \/ e.json_path # NonePath)
                  => e.status = "finished"
            /\ e.status = "finished"
                  => (e.html_path # NonePath /\ e.json_path # NonePath)

\* ------------------------------------------------ claims on download (Spec)
\* the path argument that asks for artifact `x` of the file with key parts `k`
Artifact(k, x) == k \o << x >>

\* C25: whenever the status of a file is finished, both recorded artifact paths
\* are set and the files they name are in the working storage, so a download
\* of either answers 200; for a file of the registry a download of html or
\* json answers 404 only when the recorded path is None or the stored file is
\* gone, and 200 otherwise.
C25_FinishedArtifactsExist ==
    \A r \in DOMAIN records : \A n \in FileNames :
        LET k == KeyParts(original_name(n))
        IN  HasFile(records, r, Join(k)) =>
              LET e == FileOf(records, r, Join(k))
              IN  /\ e.status = "finished" =>
                        /\ path_exists(disk, e.html_path)
                        /\ path_exists(disk, e.json_path)
                        /\ download(records, disk, r, Artifact(k, "html")) = 200
                        /\ download(records, disk, r, Artifact(k, "json")) = 200
                  /\ download(records, disk, r, Artifact(k, "html")) =
                        IF e.html_path = NonePath \/ ~path_exists(disk, e.html_path)
                        THEN 404 ELSE 200
                  /\ download(records, disk, r, Artifact(k, "json")) =
                        IF e.json_path = NonePath \/ ~path_exists(disk, e.json_path)
                        THEN 404 ELSE 200

\* C25 witness: a finished file whose two artifacts can be downloaded, beside
\* a file of the same request that has none
C25_Witness ==
    \E r \in DOMAIN records :
        /\ Len(records[r].files) = 2
        /\ \E n \in FileNames :
             LET k == KeyParts(original_name(n))
             IN  /\ HasFile(records, r, Join(k))
                 /\ FileOf(records, r, Join(k)).status = "finished"
                 /\ download(records, disk, r, Artifact(k, "json")) = 200
        /\ \E n \in FileNames :
             LET k == KeyParts(original_name(n))
             IN  /\ HasFile(records, r, Join(k))
                 /\ download(records, disk, r, Artifact(k, "html")) = 404

\* the answer of download for every path argument a client can send, against
\* the order of the checks of api.py:104-128
DownloadClassified ==
    \A r \in ReqIds : \A p \in DownloadSlugs :
        LET code == download(records, disk, r, p)
        IN  IF r \notin DOMAIN records THEN code = 404
            ELSE IF Len(p) < 2 THEN code = 400
            ELSE IF p[Len(p)] \notin {"html", "json"} THEN code = 415
            ELSE IF \A i \in 1..Len(records[r].files) :
                       records[r].files[i].name # Join(SubSeq(p, 1, Len(p) - 1))
                 THEN code = 404
            ELSE LET e == FileOf(records, r, Join(SubSeq(p, 1, Len(p) - 1)))
                     path == IF p[Len(p)] = "html" THEN e.html_path ELSE e.json_path
                 IN  IF path = NonePath \/ ~path_exists(disk, path)
                     THEN code = 404 ELSE code = 200

\* C26: download answers 404 for a request id the registry does not hold,
\* before any other check; for a request it holds, in this order: 400 when the
\* path argument has no dot, 415 when its extension is neither html nor json,
\* 404 when the part before the last dot is no file key of the request, 404
\* when the recorded artifact is missing, and 200 otherwise.
C26_DownloadClassification == []DownloadClassified

\* C26 witness: a request with one file that has no artifact, for which the
\* five kinds of path argument get 400, 415, 404, 404 and another file gets 200
C26_Witness ==
    \E r \in DOMAIN records :
        /\ Len(records[r].files) = 2
        /\ \E p \in DownloadSlugs : download(records, disk, r, p) = 400
        /\ \E p \in DownloadSlugs :
             /\ download(records, disk, r, p) = 415
             /\ ~HasFile(records, r, rsplit_slug(p))
        /\ download(records, disk, r, << "0000", "html" >>) = 404
        /\ \E p \in DownloadSlugs :
             /\ ~rsplit_raises(p) /\ HasFile(records, r, rsplit_slug(p))
             /\ rsplit_ext(p) = "html"
             /\ download(records, disk, r, p) = 404
        /\ \E p \in DownloadSlugs : download(records, disk, r, p) = 200

\* ------------------------------------- claims on the orchestration task (Spec)
\* the entries of a request whose status is processing
Processing(recs, request_id) ==
    { i \in 1..Len(recs[request_id].files) :
        recs[request_id].files[i].status = "processing" }

\* C27: within one request files are driven in upload order and one at a time:
\* a file has status processing only when every file before it in upload order
\* has a terminal status (so it enters processing only after they reached
\* one), and at most one file of a request has status processing.
C27_SequentialInUploadOrder ==
    \A r \in DOMAIN records :
        /\ \A i \in Processing(records, r) :
              \A j \in 1..(i - 1) : records[r].files[j].status \in Terminal
        /\ Cardinality(Processing(records, r)) <= 1

\* C27 witness: the second file is processing, the first one ended in error
C27_Witness ==
    \E r \in DOMAIN records :
        /\ Len(records[r].files) = 2
        /\ records[r].files[1].status = "error"
        /\ records[r].files[2].status = "processing"
        /\ task[r].pc = "pipeline"

\* C28: at most one pipeline invocation is in flight for a file of a request,
\* and only the orchestration task writes artifacts into the working storage
\* of the request: /api/extract never has the pipeline running on the file the
\* task is processing, two /api/extract calls never run it on the same file,
\* and /api/extract never gets to write an artifact.
C28_OneInvocationPerFile ==
    /\ \A e \in DOMAIN ext :
         ext[e].pc = "pipeline" =>
            /\ ~( /\ task[ext[e].request_id].pc = "pipeline"
                  /\ Current(ext[e].request_id) = ext[e].file_name )
            /\ \A other \in DOMAIN ext \ {e} :
                  ~( /\ ext[other].pc = "pipeline"
                     /\ ext[other].request_id = ext[e].request_id
                     /\ ext[other].file_name = ext[e].file_name )
    /\ \A e \in DOMAIN ext : ext[e].pc \notin {"write_html", "write_json", "update"}

\* ------------------------------------------------ claims on progress (FairSpec)
\* C30: every FileStatus added to the registry eventually has a terminal
\* status, provided every pipeline invocation returns: no file stays pending or
\* queued forever, the files already queued when a later file of the same
\* upload is rejected included.
C30_EveryFileTerminates ==
    \A r \in ReqIds : \A k \in Keys :
        HasFile(records, r, k)
           ~> (HasFile(records, r, k) /\ FileOf(records, r, k).status \in Terminal)


\* ------------------------------------------- the executor of asyncio.to_thread
\* views.py:54, views.py:68 and api.py:45 hand safe_save_upload and
\* run_pipeline to asyncio.to_thread, which runs them on the event loop's
\* default executor: a thread pool of min(32, os.cpu_count() + 4) workers that
\* the application never replaces.  A call waits until a worker is free, and a
\* worker is free again only when the call it runs returns.  HangSpec models
\* that pool, with MaxWorkers workers, for several requests at once.
MaxWorkers == 1
HangFiles  == 1
HangReqs   == {1, 2}
HangDirs   == { temp_request_dir(r) : r \in HangReqs }

\* one upload of HangFiles files per request
HangInputs == [1..HangFiles -> FileNames]

\* the calls handed to the executor: the save of the i-th file of request r
\* and the pipeline invocation for the i-th saved file of request r
SaveCall(r)     == << "save", r, upl[r].i >>
PipelineCall(r) == << "pipeline", r, task[r].i >>
Calls == { << kind, r, i >> : kind \in {"save", "pipeline"}, r \in HangReqs,
                            i \in 1..HangFiles }

\* the calls a coroutine is awaiting, and those of them that hold a worker
InFlight ==
    { SaveCall(r) : r \in { x \in DOMAIN upl : upl[x].pc = "save" } }
        \cup { PipelineCall(r) : r \in { x \in DOMAIN task : task[x].pc = "pipeline" } }
Busy == InFlight \cap pool.started

\* a pipeline invocation of request r that never returns
Hung(r) == \E c \in pool.hung : c[2] = r

HangInit ==
    /\ records = << >>
    /\ disk = [ dir \in HangDirs |-> [ k \in Keys |-> Absent ] ]
    /\ timer = [ r \in HangReqs |-> FALSE ]
    /\ upl = [ r \in HangReqs |-> IdleUpload ]
    /\ task = [ r \in HangReqs |-> IdleTask ]
    /\ ext = [ e \in ExtSlots |-> IdleExtract ]
    /\ now = 0
    /\ hist = [ r \in HangReqs |-> NoHistory ]
    /\ call = NoCall
    /\ pool = NoPool

\* a free worker of the executor takes a waiting call; a run_pipeline call may
\* be one that never returns
worker_start(c, hangs) ==
    /\ c \in InFlight \ pool.started
    /\ Cardinality(Busy) < MaxWorkers
    /\ hangs => c[1] = "pipeline"
    /\ pool' = [ started |-> pool.started \cup {c},
                 hung    |-> pool.hung \cup (IF hangs THEN {c} ELSE {}) ]
    /\ UNCHANGED << records, disk, timer, upl, task, ext, now, hist, call >>

\* views.py:41-102 with the executor: safe_save_upload returns only after a
\* worker has run it
hang_upload(r) ==
    /\ upl[r].pc = "save" => SaveCall(r) \in pool.started
    /\ upload(r)

\* views.py:60-93 with the executor: run_pipeline returns or raises only after
\* a worker has run it, and never when it hangs
hang_process_queue(r) ==
    /\ task[r].pc = "pipeline" => PipelineCall(r) \in pool.started \ pool.hung
    /\ process_queue(r)

HangNext ==
    \/ \E files \in HangInputs : upload_start(files)
    \/ \E r \in HangReqs : hang_upload(r)
    \/ \E r \in HangReqs : hang_process_queue(r)
    \/ \E c \in Calls : \E hangs \in BOOLEAN : worker_start(c, hangs)
    \/ \E r \in HangReqs : cleanup_thread(r)

\* the event loop runs every coroutine that can go on, the executor gives a
\* free worker to a waiting call, and a started cleanup thread ends its sleep
HangSpec ==
    /\ HangInit
    /\ [][HangNext]_vars
    /\ \A r \in HangReqs : SF_vars(hang_upload(r))
    /\ \A r \in HangReqs : SF_vars(hang_process_queue(r))
    /\ \A c \in Calls : SF_vars(\E hangs \in BOOLEAN : worker_start(c, hangs))
    /\ \A r \in HangReqs : WF_vars(cleanup_thread(r))

\* C29: a pipeline invocation that never returns stalls only its own request.
\* Whatever hangs elsewhere, an accepted upload of a request none of whose own
\* invocations hangs is answered (redirect or error response), and every file
\* registered for such a request reaches a terminal status, unless the upload
\* itself was rejected.
C29_HangStallsOnlyOwnRequest ==
    \A r \in HangReqs :
        /\ (upl[r].pc = "save") ~> (upl[r].pc \in {"done", "failed"} \/ Hung(r))
        /\ \A k \in Keys :
              HasFile(records, r, k)
                 ~> \/ HasFile(records, r, k)
                          /\ FileOf(records, r, k).status \in Terminal
                    \/ upl[r].pc = "failed"
                    \/ Hung(r)


\* ---------------------------------------------- several requests side by side
\* The application with the requests of HangReqs running concurrently: their
\* uploads, orchestration tasks and cleanup threads interleave at every await,
\* clients cancel files of either request, and the registry's owner calls
\* registry.cleanup, which no handler calls, at any moment.

\* state.py:107-109  registry.cleanup(request_id) on a request the registry holds
registry_cleanup(r) ==
    /\ r \in DOMAIN records
    /\ records' = cleanup(records, r)
    /\ UNCHANGED << disk, timer, upl, task, ext, now, hist, call, pool >>

IsolationNext ==
    \/ \E files \in HangInputs : upload_start(files)
    \/ \E r \in HangReqs : upload(r)
    \/ \E r \in HangReqs : process_queue(r)
    \/ \E r \in HangReqs : cleanup_thread(r)
    \/ \E r \in HangReqs, k \in Keys : cancel(r, k)
    \/ \E r \in HangReqs : registry_cleanup(r)

IsolationSpec == HangInit /\ [][IsolationNext]_vars

\* the record of a request with its FileStatus entries, None when absent
RecordOf(recs, request_id) == get(recs, request_id)

\* a step of an operation applied to request r: its upload handler (add_file,
\* update), its orchestration task (update, mark_error), a cancel of one of its
\* files, or registry.cleanup of it
AppliedTo(r) ==
    \/ upload(r)
    \/ process_queue(r)
    \/ \E k \in Keys : cancel(r, k)
    \/ registry_cleanup(r)

\* C31: requests are isolated from each other: add_file, update, mark_error,
\* cancel and cleanup applied to request r, and the orchestration task of r,
\* leave the record and every FileStatus of every other request unchanged,
\* under any interleaving of the requests.
C31_RequestsIsolated ==
    [][\A r \in HangReqs :
          AppliedTo(r) =>
             \A other \in HangReqs \ {r} :
                RecordOf(records', other) = RecordOf(records, other)]_vars

\* both requests hold the same file key, one of them has been worked on
\* (cancelled, failed, or cleaned up after its upload was answered) and the
\* other still has its entry queued
C31_Witness ==
    \E r \in HangReqs : \E other \in HangReqs \ {r} : \E k \in Keys :
        /\ HasFile(records, other, k)
        /\ FileOf(records, other, k).status = "queued"
        /\ upl[r].pc = "done"
        /\ \/ r \notin DOMAIN records
           \/ HasFile(records, r, k) /\ FileOf(records, r, k).status \in Terminal

====
